---- MODULE Spec2Model ----
(***************************************************************************)
(* ERP Orchestrator API (src/main.py): the task store handlers             *)
(* (create_task, get_task, list_tasks, update_task) over a document        *)
(* collection, and the chat handler (the conversation gate).               *)
(*                                                                         *)
(* Optional values (Python None / JSON null) are wrapped: Null is <<>> and *)
(* a present value v is <<v>>, so that a field can hold null or a value of *)
(* any type.  Text that the code inspects (chat message content) is a      *)
(* sequence of one-character strings.                                      *)
(***************************************************************************)
EXTENDS Integers, Sequences, FiniteSets, TLC

VARIABLES
    store,      \* db["task"]: the documents, in insertion order
    clock,      \* the time; one tick per request received
    pc,         \* per client: position in the handler it is running
    call,       \* per client: the request being handled
    resp,       \* the response sent last
    history,    \* chat: the history the caller is building and replaying
    lastCall,   \* chat: the latest call of chat (its history, its response)
    chatClock   \* chat: the time; one tick per call of chat

vars == <<store, clock, pc, call, resp, history, lastCall, chatClock>>
storeVars == <<store, clock, pc, call, resp>>
chatVars == <<history, lastCall, chatClock>>

----------------------------------------------------------------------------
\* Bounds of the model.

\* Requests received by the task store in one behaviour.
MaxRequests == 2

\* Messages in the history a caller of chat keeps, and calls of chat.
MaxHistory == 3
MaxChatCalls == 2

----------------------------------------------------------------------------
\* Optional values.

Null == <<>>
Some(v) == <<v>>
IsNull(x) == x = <<>>
Val(x) == x[1]

\* The function g overriding f (dict update; $set on a document).
Merge(f, g) ==
    [k \in DOMAIN f \cup DOMAIN g |-> IF k \in DOMAIN g THEN g[k] ELSE f[k]]

Restrict(f, S) == [k \in S |-> f[k]]

Range(s) == {s[i] : i \in DOMAIN s}

----------------------------------------------------------------------------
\* Models (Pydantic).

Status == {"running", "queued", "complete", "error"}

ProgressMin == 0
ProgressMax == 100

\* Step: name required; status defaults to queued; the rest default to None.
Step(name, status, progress) ==
    [name |-> name, status |-> status, llm |-> Null, progress |-> progress,
     duration |-> Null]

ValidStep(s) ==
    /\ s.status \in Status
    /\ IsNull(s.progress) \/ (Val(s.progress) >= ProgressMin /\ Val(s.progress) <= ProgressMax)

BlockTypes ==
    {"heading", "text", "table", "chart", "code", "callout", "image", "divider",
     "quote", "list", "embed"}

Block(id, type, content) ==
    [id |-> id, type |-> type, content |-> content, metadata |-> Null]

ValidBlock(b) == b.type \in BlockTypes

\* The fields an UpdateTaskRequest declares.
UpdateFields ==
    {"name", "status", "progress", "user", "llm", "duration", "steps", "canvas",
     "logs", "append_log"}

\* UpdateTaskRequest(**body): undeclared keys of the body are ignored; the
\* result remembers which declared fields were set (model_fields_set).
ParseUpdate(body) == Restrict(body, DOMAIN body \cap UpdateFields)

\* Validation of one declared field of an UpdateTaskRequest: every field is
\* Optional, so null is accepted; a value must satisfy the field's type.
ValidUpdateField(f, x) ==
    \/ IsNull(x)
    \/ CASE f = "status" -> Val(x) \in Status
         [] f = "progress" -> Val(x) >= ProgressMin /\ Val(x) <= ProgressMax
         [] f = "steps" -> \A i \in DOMAIN Val(x) : ValidStep(Val(x)[i])
         [] f = "canvas" -> \A i \in DOMAIN Val(x) : ValidBlock(Val(x)[i])
         [] OTHER -> TRUE

ValidUpdate(body) ==
    \A f \in DOMAIN body \cap UpdateFields : ValidUpdateField(f, body[f])

\* CreateTaskRequest: name required; steps Optional.
ValidCreate(body) ==
    /\ "name" \in DOMAIN body /\ ~IsNull(body.name)
    /\ "steps" \in DOMAIN body =>
         (IsNull(body.steps) \/ \A i \in DOMAIN Val(body.steps) : ValidStep(Val(body.steps)[i]))

\* The fields of Task other than id.
TaskFields ==
    {"name", "status", "progress", "user", "llm", "startTime", "duration",
     "steps", "canvas", "logs"}

\* Task(**doc) validates: name, user, llm strings; status in Status; progress
\* an int in range; steps, canvas, logs lists; startTime, duration Optional.
ValidTask(d) ==
    /\ ~IsNull(d.name) /\ ~IsNull(d.user) /\ ~IsNull(d.llm)
    /\ ~IsNull(d.status) /\ Val(d.status) \in Status
    /\ ~IsNull(d.progress)
    /\ Val(d.progress) >= ProgressMin /\ Val(d.progress) <= ProgressMax
    /\ ~IsNull(d.steps) /\ \A i \in DOMAIN Val(d.steps) : ValidStep(Val(d.steps)[i])
    /\ ~IsNull(d.canvas) /\ \A i \in DOMAIN Val(d.canvas) : ValidBlock(Val(d.canvas)[i])
    /\ ~IsNull(d.logs)

----------------------------------------------------------------------------
\* Helpers.

\* The text of an ObjectId, and ObjectId(id_str) back.  A well-formed id
\* string is <<"oid", n>>; anything else makes ObjectId raise.
IdStr(n) == <<"oid", n>>
WellFormedId(s) == Len(s) = 2 /\ s[1] = "oid"
oid(s) == s[2]

\* Responses: a kind and a body (a Task, a list of Tasks, or nothing).
Response(kind, body) == [kind |-> kind, body |-> body]
BadRequest == Response("bad_request", Null)
NotFound == Response("not_found", Null)
ServerError == Response("server_error", Null)
NoResponse == Response("none", Null)

\* serialize_task: id from _id; Task(**doc) keeps the Task fields and
\* ignores the others (updated_at).  Raises when the document is no valid Task.
serialize_task(doc) ==
    Merge([id |-> IdStr(doc._id)], Restrict(doc, TaskFields))

----------------------------------------------------------------------------
\* The collection (a pymongo collection; docs is its content in insertion order).

\* find_one({"_id": id}): the position of the first match, 0 when none.
FindOne(docs, id) ==
    IF \E i \in DOMAIN docs : docs[i]._id = id
    THEN CHOOSE i \in DOMAIN docs :
             docs[i]._id = id /\ \A j \in 1..(i - 1) : docs[j]._id # id
    ELSE 0

\* update_one(filter, {"$set": fields}): no upsert, so no match changes nothing.
SetFields(docs, id, fields) ==
    IF FindOne(docs, id) = 0 THEN docs
    ELSE [docs EXCEPT ![FindOne(docs, id)] = Merge(@, fields)]

\* update_one(filter, {"$push": {"logs": entry}, "$set": fields}).  $push on a
\* field that is not an array is a write error that changes nothing.
PushFails(docs, id) == FindOne(docs, id) # 0 /\ IsNull(docs[FindOne(docs, id)].logs)

PushLog(docs, id, entry, fields) ==
    IF FindOne(docs, id) = 0 THEN docs
    ELSE [docs EXCEPT ![FindOne(docs, id)] =
            Merge([@ EXCEPT !.logs = Some(Append(Val(@), entry))], fields)]

\* create_document(collection, task): inserts the document and returns the
\* id the store assigned, which no stored document has.
NewId(docs) == Len(docs) + 1

InsertDoc(docs, task) ==
    Append(docs, Merge(task, [_id |-> NewId(docs), updated_at |-> Null]))

\* get_documents(collection, {}, limit): the first limit documents.
GetDocuments(docs, limit) ==
    SubSeq(docs, 1, IF limit < Len(docs) THEN limit ELSE Len(docs))

----------------------------------------------------------------------------
\* Requests the clients send.

Clients == {"c1", "c2"}

S1 == Step("Load", "running", Some(100))
S2 == Step("Report", "queued", Null)
Sbad == Step("Load", "queued", Some(101))
B1 == Block("b1", "heading", "Summary")

\* Bodies of POST /api/tasks: steps omitted, empty, given, invalid; no name.
CreateBodies ==
    { [name |-> Some("Q4 report")],
      [name |-> Some("Q4 report"), steps |-> Some(<<>>)],
      [name |-> Some("Q4 report"), steps |-> Some(<<S1, S2>>), user |-> Some("Ann")],
      [name |-> Some("Q4 report"), steps |-> Some(<<Sbad>>)],
      [steps |-> Some(<<S1>>)] }

\* Values a PATCH body gives a key: valid ones, null, and ones validation
\* rejects.  startTime is a key UpdateTaskRequest does not declare.
FieldValues(f) ==
    CASE f = "name" -> {Some("Q4 v2"), Null}
      [] f = "status" -> {Some("running"), Some("bogus")}
      [] f = "progress" -> {Some(-1), Some(100), Some(101)}
      [] f = "user" -> {Some("Ann")}
      [] f = "llm" -> {Some("gpt")}
      [] f = "duration" -> {Some("5m")}
      [] f = "steps" -> {Some(<<S2, S1>>)}
      [] f = "canvas" -> {Some(<<B1>>)}
      [] f = "logs" -> {Some(<<"x">>), Null}
      [] f = "append_log" -> {Some("a"), Some("")}
      [] f = "startTime" -> {Some(0)}

BodyKeys == UpdateFields \cup {"startTime"}

EmptyBody == [k \in {} |-> Null]

\* The value the two-key bodies give the key beside append_log.
PairValue(f) ==
    CASE f = "status" -> Some("running")
      [] f = "logs" -> Some(<<"x">>)

\* Bodies of PATCH /api/tasks/{id}: no key, one key, or append_log with one
\* other key.
UpdateBodies ==
    {EmptyBody}
    \cup UNION {{[k \in {f} |-> v] : v \in FieldValues(f)} : f \in BodyKeys}
    \cup {[k \in {f, "append_log"} |-> IF k = f THEN PairValue(f) ELSE Some("a")] :
             f \in {"status", "logs"}}

\* The body with append_log and another field.
BothBody == [status |-> Some("running"), append_log |-> Some("a")]

\* Ids a request names: the first two ids the store assigns and a malformed one.
IdStrings == {IdStr(1), IdStr(2), <<"zz">>}

\* The PATCH requests, <<task_id, body>>: every body on the first id; on an
\* id that may match nothing, and on a malformed one, only some.
UpdateRequests ==
    ({IdStr(1)} \X UpdateBodies)
    \cup ({IdStr(2)} \X {EmptyBody, BothBody})
    \cup ({<<"zz">>} \X {BothBody})

DefaultLimit == 50
Limits == {1, DefaultLimit}

----------------------------------------------------------------------------
\* The handlers.  A client sends one request at a time; steps of different
\* clients' handlers interleave at the store calls.

Now == clock

\* Client c may send a request.  The API does not tell clients apart, so a
\* request that overlaps no other is taken to be c1's: c2 sends only while
\* c1's handler is running.
MaySend(c) ==
    /\ pc[c] = "idle"
    /\ clock < MaxRequests
    /\ c = "c2" => pc["c1"] # "idle"

NoCall == [op |-> "none", task_id |-> <<"zz">>, req |-> <<>>, t |-> 0]

\* The response built from a document read from the store.
TaskResponse(doc) ==
    IF ValidTask(doc) THEN Response("ok", Some(serialize_task(doc)))
    ELSE ServerError

\* ReadResponse with the 404 replaced by an empty default Task.
ReadResponseDefault(docs, task_id) ==
    IF ~WellFormedId(task_id) THEN BadRequest
    ELSE IF FindOne(docs, oid(task_id)) = 0
    THEN Response("ok", Some([id |-> task_id, name |-> Some("")]))
    ELSE TaskResponse(docs[FindOne(docs, oid(task_id))])

\* doc = find_one({"_id": oid(task_id)}); 404 when there is none; else the Task.
ReadResponse(docs, task_id) ==
    IF ~WellFormedId(task_id) THEN BadRequest
    ELSE IF FindOne(docs, oid(task_id)) = 0 THEN NotFound
    ELSE TaskResponse(docs[FindOne(docs, oid(task_id))])

DefaultSteps ==
    << Step("Analyze Data", "queued", Null),
       Step("Write Summary", "queued", Null),
       Step("Gen Charts", "queued", Null),
       Step("Final Assembly", "queued", Null) >>

\* StepsOrDefault with the default taken only when steps is None.
StepsOrDefaultNoneOnly(body) ==
    IF "steps" \in DOMAIN body /\ ~IsNull(body.steps)
    THEN Val(body.steps)
    ELSE DefaultSteps

\* req.steps or [...]: None and the empty list are both falsy.
StepsOrDefault(body) ==
    IF "steps" \in DOMAIN body /\ ~IsNull(body.steps) /\ Val(body.steps) # <<>>
    THEN Val(body.steps)
    ELSE DefaultSteps

\* The Task create_task builds at time now.
NewTask(body, now) ==
    [name |-> body.name,
     user |-> IF "user" \in DOMAIN body THEN body.user ELSE Some("You"),
     llm |-> IF "llm" \in DOMAIN body THEN body.llm ELSE Some("Claude Sonnet 4.5"),
     status |-> Some("queued"),
     progress |-> Some(0),
     startTime |-> Some(now),
     duration |-> Null,
     steps |-> Some(StepsOrDefault(body)),
     canvas |-> Some(<<>>),
     logs |-> Some(<<"Task created">>)]

\* POST /api/tasks
create_task(c, body) ==
    /\ MaySend(c)
    /\ clock' = clock + 1
    /\ IF ~ValidCreate(body)
       THEN /\ resp' = BadRequest
            /\ store' = store
       ELSE LET new_id == NewId(store)
                docs == InsertDoc(store, NewTask(body, clock'))
            IN /\ store' = docs
               /\ resp' = TaskResponse(docs[FindOne(docs, new_id)])
    /\ UNCHANGED <<pc, call, chatVars>>

\* GET /api/tasks/{task_id}
get_task(c, task_id) ==
    /\ MaySend(c)
    /\ clock' = clock + 1
    /\ resp' = ReadResponse(store, task_id)
    /\ UNCHANGED <<store, pc, call, chatVars>>

\* GET /api/tasks
list_tasks(c, limit) ==
    /\ MaySend(c)
    /\ clock' = clock + 1
    /\ LET docs == GetDocuments(store, limit)
       IN resp' = IF \A i \in DOMAIN docs : ValidTask(docs[i])
                  THEN Response("ok", Some([i \in DOMAIN docs |-> serialize_task(docs[i])]))
                  ELSE ServerError
    /\ UNCHANGED <<store, pc, call, chatVars>>

\* Updates without exclude_unset: every declared field, None when not set.
UpdatesDumpAll(req) ==
    [f \in UpdateFields \ {"append_log"} |-> IF f \in DOMAIN req THEN req[f] ELSE Null]

\* updates: the fields set in the request, append_log left out.
Updates(req) == Restrict(req, DOMAIN req \ {"append_log"})

\* req.append_log (None when not set).
AppendLog(req) == IF "append_log" \in DOMAIN req THEN req["append_log"] ELSE Null

\* if req.append_log: None and the empty string are falsy.
Truthy(x) == ~IsNull(x) /\ Val(x) # ""

Finish(c, r) ==
    /\ resp' = r
    /\ pc' = [pc EXCEPT ![c] = "idle"]
    /\ call' = [call EXCEPT ![c] = NoCall]

\* PATCH /api/tasks/{task_id}: the request is validated, then the $push.
update_push(c, task_id, body) ==
    /\ MaySend(c)
    /\ clock' = clock + 1
    /\ IF ~ValidUpdate(body)
       THEN Finish(c, BadRequest) /\ store' = store
       ELSE LET req == ParseUpdate(body)
            IN IF ~Truthy(AppendLog(req))
               THEN /\ store' = store
                    /\ pc' = [pc EXCEPT ![c] = "set"]
                    /\ call' = [call EXCEPT ![c] =
                                  [op |-> "update", task_id |-> task_id, req |-> req, t |-> clock']]
                    /\ resp' = resp
               ELSE IF ~WellFormedId(task_id)
               THEN Finish(c, BadRequest) /\ store' = store
               ELSE IF PushFails(store, oid(task_id))
               THEN Finish(c, ServerError) /\ store' = store
               ELSE /\ store' = PushLog(store, oid(task_id), Val(AppendLog(req)),
                                        [updated_at |-> Some(clock')])
                    /\ pc' = [pc EXCEPT ![c] = "set"]
                    /\ call' = [call EXCEPT ![c] =
                                  [op |-> "update", task_id |-> task_id, req |-> req, t |-> clock']]
                    /\ resp' = resp
    /\ UNCHANGED chatVars

\* update_task, the $set of the other fields.
update_set(c) ==
    /\ pc[c] = "set"
    /\ LET req == call[c].req
           task_id == call[c].task_id
       IN IF Updates(req) = EmptyBody
          THEN /\ store' = store
               /\ pc' = [pc EXCEPT ![c] = "read"]
               /\ UNCHANGED <<call, resp>>
          ELSE IF ~WellFormedId(task_id)
          THEN Finish(c, BadRequest) /\ store' = store
          ELSE /\ store' = SetFields(store, oid(task_id),
                                     Merge(Updates(req), [updated_at |-> Some(Now)]))
               /\ pc' = [pc EXCEPT ![c] = "read"]
               /\ UNCHANGED <<call, resp>>
    /\ UNCHANGED <<clock, chatVars>>

\* update_task, the read-back and the response.
update_read(c) ==
    /\ pc[c] = "read"
    /\ Finish(c, ReadResponse(store, call[c].task_id))
    /\ UNCHANGED <<store, clock, chatVars>>

----------------------------------------------------------------------------
\* Chat (simulated assistant).  Text is a sequence of characters.

\* content, line 205.
DefaultText ==
    << "L", "e", "t", "'", "s", " ", "d", "e", "f", "i", "n", "e", " ", "w",
       "h", "a", "t", " ", "y", "o", "u", " ", "w", "a", "n", "t", " ", "t",
       "o", " ", "c", "r", "e", "a", "t", "e", ".", " ", "P", "i", "c", "k",
       " ", "m", "e", "t", "r", "i", "c", "s", " ", "a", "n", "d", " ", "t",
       "i", "m", "e", " ", "p", "e", "r", "i", "o", "d", ",", " ", "t", "h",
       "e", "n", " ", "h", "i", "t", " ", "C", "r", "e", "a", "t", "e", " ",
       "T", "a", "s", "k", "." >>

\* content, line 214.
ReadyText ==
    << "S", "p", "e", "c", " ", "l", "o", "o", "k", "s", " ", "g", "o", "o",
       "d", ".", " ", "C", "l", "i", "c", "k", " ", "C", "r", "e", "a", "t",
       "e", " ", "T", "a", "s", "k", " ", "t", "o", " ", "s", "t", "a", "r",
       "t", " ", "t", "h", "e", " ", "p", "i", "p", "e", "l", "i", "n", "e",
       "." >>

\* content, line 217.
NotedText ==
    << "G", "r", "e", "a", "t", ",", " ", "n", "o", "t", "e", "d", ".", " ",
       "A", "n", "y", "t", "h", "i", "n", "g", " ", "e", "l", "s", "e", " ",
       "t", "o", " ", "i", "n", "c", "l", "u", "d", "e", "?", " ", "Y", "o",
       "u", " ", "c", "a", "n", " ", "a", "d", "d", " ", "c", "o", "m", "p",
       "e", "t", "i", "t", "o", "r", " ", "a", "n", "a", "l", "y", "s", "i",
       "s", " ", "o", "r", " ", "f", "o", "r", "e", "c", "a", "s", "t", "." >>

\* content, line 219: f"Got it: {last.content}. Which metrics and time period should we use?"
EchoHead ==
    << "G", "o", "t", " ", "i", "t", ":", " " >>
EchoTail ==
    << ".", " ", "W", "h", "i", "c", "h", " ", "m", "e", "t", "r", "i", "c",
       "s", " ", "a", "n", "d", " ", "t", "i", "m", "e", " ", "p", "e", "r",
       "i", "o", "d", " ", "s", "h", "o", "u", "l", "d", " ", "w", "e", " ",
       "u", "s", "e", "?" >>

\* The keywords, lines 213 and 216.
KwReady ==
    << "r", "e", "a", "d", "y" >>
KwCreate ==
    << "c", "r", "e", "a", "t", "e" >>
KwMetrics ==
    << "m", "e", "t", "r", "i", "c", "s" >>
KwPeriod ==
    << "p", "e", "r", "i", "o", "d" >>

\* What the user may say.
SayReady ==
    << "I", "'", "m", " ", "R", "E", "A", "D", "Y" >>
SayCreateMetrics ==
    << "C", "r", "e", "a", "t", "e", " ", "m", "e", "t", "r", "i", "c", "s" >>
SayPeriod ==
    << "Q", "4", " ", "P", "e", "r", "i", "o", "d" >>
SayHi ==
    << "h", "i" >>

UserSays == {SayReady, SayCreateMetrics, SayPeriod, SayHi}

\* str.lower() of one character, and of a text.
LowerChar(c) ==
    CASE c = "A" -> "a"
      [] c = "B" -> "b"
      [] c = "C" -> "c"
      [] c = "D" -> "d"
      [] c = "E" -> "e"
      [] c = "F" -> "f"
      [] c = "G" -> "g"
      [] c = "H" -> "h"
      [] c = "I" -> "i"
      [] c = "J" -> "j"
      [] c = "K" -> "k"
      [] c = "L" -> "l"
      [] c = "M" -> "m"
      [] c = "N" -> "n"
      [] c = "O" -> "o"
      [] c = "P" -> "p"
      [] c = "Q" -> "q"
      [] c = "R" -> "r"
      [] c = "S" -> "s"
      [] c = "T" -> "t"
      [] c = "U" -> "u"
      [] c = "V" -> "v"
      [] c = "W" -> "w"
      [] c = "X" -> "x"
      [] c = "Y" -> "y"
      [] c = "Z" -> "z"
      [] OTHER -> c

Lower(txt) == [i \in DOMAIN txt |-> LowerChar(txt[i])]

\* kw in txt: kw occurs in txt as a substring.
Contains(txt, kw) ==
    \E i \in 1..(Len(txt) - Len(kw) + 1) : SubSeq(txt, i, i + Len(kw) - 1) = kw

ChatMessage(role, content, quickActions, timestamp) ==
    [role |-> role, content |-> content, quickActions |-> quickActions,
     timestamp |-> timestamp]

quick ==
    << [label |-> "All metrics", value |-> [metrics |-> "all"], selected |-> TRUE],
       [label |-> "Q4 2024", value |-> [period |-> "Q4 2024"], selected |-> TRUE],
       [label |-> "Add charts", value |-> [charts |-> TRUE], selected |-> FALSE] >>

\* chat with the keyword search over every user message of the history.
ChatAnyMessage(hist, now) ==
    LET said == {i \in DOMAIN hist : hist[i].role = "user"}
        ready == \E i \in said : \/ Contains(Lower(hist[i].content), KwReady)
                                 \/ Contains(Lower(hist[i].content), KwCreate)
        content == IF ready THEN ReadyText ELSE DefaultText
    IN [message |-> ChatMessage("assistant", content, Some(quick), Some(now)),
        readyForTask |-> ready]

\* chat with the two keyword tests in the other order.
ChatMetricsFirst(hist, now) ==
    LET isUser == hist # <<>> /\ hist[Len(hist)].role = "user"
        txt == Lower(hist[Len(hist)].content)
        noted == isUser /\ (Contains(txt, KwMetrics) \/ Contains(txt, KwPeriod))
        ready == isUser /\ ~noted /\ (Contains(txt, KwReady) \/ Contains(txt, KwCreate))
        content ==
            IF ~isUser THEN DefaultText
            ELSE IF noted THEN NotedText
            ELSE IF ready THEN ReadyText
            ELSE EchoHead \o hist[Len(hist)].content \o EchoTail
    IN [message |-> ChatMessage("assistant", content, Some(quick), Some(now)),
        readyForTask |-> ready]

\* POST /api/chat: the ChatResponse for a history, at time now.
chat(hist, now) ==
    LET isUser == hist # <<>> /\ hist[Len(hist)].role = "user"
        txt == Lower(hist[Len(hist)].content)
        ready == isUser /\ (Contains(txt, KwReady) \/ Contains(txt, KwCreate))
        content ==
            IF ~isUser THEN DefaultText
            ELSE IF ready THEN ReadyText
            ELSE IF Contains(txt, KwMetrics) \/ Contains(txt, KwPeriod) THEN NotedText
            ELSE EchoHead \o hist[Len(hist)].content \o EchoTail
    IN [message |-> ChatMessage("assistant", content, Some(quick), Some(now)),
        readyForTask |-> ready]

\* The caller adds what the user said to the history it keeps.
user_says(content) ==
    /\ Len(history) < MaxHistory
    /\ history' = Append(history, ChatMessage("user", content, Null, Null))
    /\ UNCHANGED <<lastCall, chatClock, storeVars>>

\* The caller posts its history; the handler keeps nothing of the call.
post_chat ==
    /\ chatClock < MaxChatCalls
    /\ chatClock' = chatClock + 1
    /\ lastCall' = Some([hist |-> history, resp |-> chat(history, chatClock')])
    /\ UNCHANGED <<history, storeVars>>

\* The caller adds the reply to the history it answered.
replay_reply ==
    /\ ~IsNull(lastCall) /\ Val(lastCall).hist = history
    /\ Len(history) < MaxHistory
    /\ history' = Append(history, Val(lastCall).resp.message)
    /\ UNCHANGED <<lastCall, chatClock, storeVars>>

\* The caller starts over with an empty history.
new_conversation ==
    /\ history # <<>>
    /\ history' = <<>>
    /\ UNCHANGED <<lastCall, chatClock, storeVars>>

----------------------------------------------------------------------------
\* The collection outlives the process: it starts empty, or holding the task
\* an earlier create_task (default body, time 0) left in it.
SeedTask == NewTask([name |-> Some("Q4 report")], 0)

StoreInit ==
    /\ store \in {<<>>, InsertDoc(<<>>, SeedTask)}
    /\ clock = 0
    /\ pc = [c \in Clients |-> "idle"]
    /\ call = [c \in Clients |-> NoCall]
    /\ resp = NoResponse

ChatInit ==
    /\ history = <<>>
    /\ lastCall = Null
    /\ chatClock = 0

Init == StoreInit /\ ChatInit

Next ==
    \/ \E c \in Clients, body \in CreateBodies : create_task(c, body)
    \/ \E c \in Clients, task_id \in IdStrings : get_task(c, task_id)
    \/ \E c \in Clients, limit \in Limits : list_tasks(c, limit)
    \/ \E c \in Clients, r \in UpdateRequests : update_push(c, r[1], r[2])
    \/ \E c \in Clients : update_set(c)
    \/ \E c \in Clients : update_read(c)

Spec == Init /\ [][Next]_vars

\* The conversation gate alone, over an empty task store.
InitChat == StoreInit /\ store = <<>> /\ ChatInit

NextChat ==
    \/ \E content \in UserSays : user_says(content)
    \/ post_chat
    \/ replay_reply
    \/ new_conversation

SpecChat == InitChat /\ [][NextChat]_vars

----------------------------------------------------------------------------
\* Properties of the task store.

\* The document a well-formed id string names, 0 when none.
DocOf(task_id) == IF WellFormedId(task_id) THEN FindOne(store, oid(task_id)) ELSE 0

\* C1: every write of a Partial Update changes only the Task fields present
\* in its request (logs also when append_log is given); _id (the Task's id)
\* and startTime are changed by no step, and no document is removed.
C1_UpdateFrame ==
    [][\A i \in DOMAIN store :
          /\ i \in DOMAIN store'
          /\ store'[i]._id = store[i]._id
          /\ store'[i].startTime = store[i].startTime
          /\ \A f \in TaskFields :
                store'[i][f] # store[i][f] =>
                   \E c \in Clients :
                      LET req == IF pc[c] = "idle" THEN call'[c].req ELSE call[c].req
                      IN /\ pc'[c] # pc[c]
                         /\ pc[c] \in {"idle", "set"}
                         /\ \/ f \in DOMAIN req
                            \/ f = "logs" /\ "append_log" \in DOMAIN req]_vars

\* C1 witness: an update carrying only status has written status and left
\* name, steps, canvas and logs as create_task set them.
C1_Witness ==
    \E c \in Clients :
       /\ pc[c] = "read"
       /\ call[c].req = [status |-> Some("running")]
       /\ DocOf(call[c].task_id) # 0
       /\ LET d == store[DocOf(call[c].task_id)]
          IN /\ d.status = Some("running")
             /\ d.name = Some("Q4 report")
             /\ d.steps = Some(DefaultSteps)
             /\ d.canvas = Some(<<>>)
             /\ d.logs = Some(<<"Task created">>)

\* C2: when a request supplies both logs and append_log, the logs after the
\* update hold the replacement entries and the appended entry.
C2_ReplaceAndAppend ==
    [][\A c \in Clients :
          (/\ update_set(c)
           /\ "logs" \in DOMAIN call[c].req /\ ~IsNull(call[c].req.logs)
           /\ Truthy(AppendLog(call[c].req))
           /\ DocOf(call[c].task_id) # 0)
          => LET after == Val(store'[DocOf(call[c].task_id)].logs)
             IN /\ Range(Val(call[c].req.logs)) \subseteq Range(after)
                /\ Val(AppendLog(call[c].req)) \in Range(after)]_vars

\* C3: an accepted request with append_log and without logs, on an existing
\* task, leaves logs equal to the prior logs followed by that one entry.
C3_AppendOne ==
    [][\A c \in Clients, r \in UpdateRequests :
          (/\ update_push(c, r[1], r[2])
           /\ ValidUpdate(r[2])
           /\ "append_log" \in DOMAIN r[2] /\ ~IsNull(r[2].append_log)
           /\ "logs" \notin DOMAIN r[2]
           /\ DocOf(r[1]) # 0
           /\ ~IsNull(store[DocOf(r[1])].logs))
          => store'[DocOf(r[1])].logs =
                Some(Append(Val(store[DocOf(r[1])].logs), Val(r[2].append_log)))]_vars

\* C4: when a Partial Update returns a Task, the record's updated_at is the
\* time of that call (or of a later one).
C4_Stamped ==
    [][\A c \in Clients :
          (update_read(c) /\ resp'.kind = "ok")
          => LET d == store[DocOf(call[c].task_id)]
             IN ~IsNull(d.updated_at) /\ Val(d.updated_at) >= call[c].t]_vars

\* C5: Get and Partial Update on a well-formed id that matches no document
\* answer Not-Found, and no step of such an update changes the store.
C5_NotFound ==
    [][\A task_id \in IdStrings :
          (WellFormedId(task_id) /\ DocOf(task_id) = 0) =>
             /\ \A c \in Clients :
                   (pc' = pc /\ get_task(c, task_id))
                   => resp' = NotFound /\ store' = store
             /\ \A c \in Clients, r \in UpdateRequests :
                   (r[1] = task_id /\ update_push(c, r[1], r[2]))
                   => store' = store
             /\ \A c \in Clients :
                   (/\ call[c].task_id = task_id
                    /\ update_set(c) \/ update_read(c))
                   => /\ store' = store
                      /\ update_read(c) => resp' = NotFound]_vars

\* C5 witness: a request on an id that matches nothing was answered
\* Not-Found, and an update of such an id has made both its writes, with the
\* one stored task as it was.
C5_Witness ==
    \E d \in Clients :
       /\ resp = NotFound
       /\ pc[d] = "read"
       /\ call[d].task_id = IdStr(2)
       /\ call[d].req = BothBody
       /\ store = InsertDoc(<<>>, SeedTask)

\* C6: every stored record satisfies the Task constraints and no operation
\* ends in an error that is neither Bad-Request nor Not-Found.
C6_RecordsValid ==
    /\ \A i \in DOMAIN store : ValidTask(store[i])
    /\ resp.kind # "server_error"

\* C7: an accepted Create adds one document under an id no stored document
\* has and returns it: status queued, progress 0, empty canvas, logs
\* ["Task created"], steps the caller's when non-empty, else the four
\* default steps in order, all queued.
C7_Create ==
    [][\A c \in Clients, body \in CreateBodies :
          (pc' = pc /\ ValidCreate(body) /\ create_task(c, body))
          => /\ resp'.kind = "ok"
             /\ Len(store') = Len(store) + 1
             /\ LET task == Val(resp'.body)
                IN /\ task.status = Some("queued")
                   /\ task.progress = Some(0)
                   /\ task.canvas = Some(<<>>)
                   /\ task.logs = Some(<<"Task created">>)
                   /\ \A i \in DOMAIN store : IdStr(store[i]._id) # task.id
                   /\ task = serialize_task(store'[Len(store')])
                   /\ IF "steps" \in DOMAIN body /\ ~IsNull(body.steps)
                         /\ Val(body.steps) # <<>>
                      THEN task.steps = body.steps
                      ELSE task.steps =
                             Some(<< Step("Analyze Data", "queued", Null),
                                     Step("Write Summary", "queued", Null),
                                     Step("Gen Charts", "queued", Null),
                                     Step("Final Assembly", "queued", Null) >>)]_vars

\* C7 witness: a task was created beside an existing one, with the caller's
\* steps, and returned.
C7_Witness ==
    /\ Len(store) = 2
    /\ resp.kind = "ok"
    /\ Val(resp.body) = serialize_task(store[2])
    /\ store[2].steps = Some(<<S1, S2>>)
    /\ store[2]._id # store[1]._id

\* C10: no state lies between the append and the field set of one request:
\* whenever a request's log entry has been appended to an existing task, the
\* request's other fields are set too.
C10_Atomic ==
    \A c \in Clients :
       (/\ pc[c] = "set"
        /\ Truthy(AppendLog(call[c].req))
        /\ DocOf(call[c].task_id) # 0)
       => \A f \in DOMAIN Updates(call[c].req) :
             store[DocOf(call[c].task_id)][f] = call[c].req[f]

----------------------------------------------------------------------------
\* Properties of the conversation gate.

\* The rule each message the user may say falls under, read off the message:
\* 1 when its lower-cased text holds "ready" or "create", else 2 when it
\* holds "metrics" or "period", else 3.
RuleOf(content) ==
    CASE content = SayReady -> 1
      [] content = SayCreateMetrics -> 1
      [] content = SayPeriod -> 2
      [] content = SayHi -> 3

LastOf(hist) == hist[Len(hist)]

\* C8: the reply to a history follows the rule order on its last entry: the
\* default prompt, not ready, when the history is empty or ends with an
\* assistant message; ready exactly under rule 1, also when a rule-2 keyword
\* is present; the rule-2 reply, or the echo, not ready, otherwise; always
\* with the same three quick actions.
C8_RuleOrder ==
    ~IsNull(lastCall) =>
       LET h == Val(lastCall).hist
           r == Val(lastCall).resp
           m == r.message
       IN /\ m.role = "assistant"
          /\ ~IsNull(m.quickActions)
          /\ [i \in 1..Len(Val(m.quickActions)) |->
                 <<Val(m.quickActions)[i].label, Val(m.quickActions)[i].selected>>]
                = << <<"All metrics", TRUE>>, <<"Q4 2024", TRUE>>, <<"Add charts", FALSE>> >>
          /\ IF h = <<>> \/ LastOf(h).role # "user"
             THEN m.content = DefaultText /\ ~r.readyForTask
             ELSE CASE RuleOf(LastOf(h).content) = 1 ->
                         r.readyForTask /\ m.content = ReadyText
                    [] RuleOf(LastOf(h).content) = 2 ->
                         ~r.readyForTask /\ m.content = NotedText
                    [] RuleOf(LastOf(h).content) = 3 ->
                         /\ ~r.readyForTask
                         /\ m.content = EchoHead \o LastOf(h).content \o EchoTail

\* C8 witness: a message with a rule-1 and a rule-2 keyword, after earlier
\* entries, was answered ready.
C8_Witness ==
    /\ ~IsNull(lastCall)
    /\ Len(Val(lastCall).hist) = 2
    /\ LastOf(Val(lastCall).hist).role = "user"
    /\ LastOf(Val(lastCall).hist).content = SayCreateMetrics
    /\ Val(lastCall).resp.readyForTask

SameEntry(a, b) == a.role = b.role /\ a.content = b.content

SameReply(r1, r2) ==
    /\ r1.message.content = r2.message.content
    /\ r1.message.quickActions = r2.message.quickActions
    /\ r1.readyForTask = r2.readyForTask

\* C9: the reply of every call depends on the last entry of its history
\* alone: it is the reply to the history holding only that entry, and the
\* reply of the call before it when that call's history ended with an equal
\* entry; and after a call answered ready, the call on that history extended
\* with a user message without "ready" or "create" is answered not ready.
C9_NoMemory ==
    [][post_chat =>
         LET h == Val(lastCall').hist
             r == Val(lastCall').resp
         IN /\ h # <<>> => SameReply(r, chat(<<LastOf(h)>>, 0))
            /\ (/\ ~IsNull(lastCall)
                /\ h # <<>> /\ Val(lastCall).hist # <<>>
                /\ SameEntry(LastOf(h), LastOf(Val(lastCall).hist)))
               => SameReply(r, Val(lastCall).resp)
            /\ (/\ ~IsNull(lastCall)
                /\ Val(lastCall).resp.readyForTask
                /\ h # <<>> /\ SubSeq(h, 1, Len(h) - 1) = Val(lastCall).hist
                /\ LastOf(h).role = "user"
                /\ RuleOf(LastOf(h).content) # 1)
               => ~r.readyForTask]_vars

\* C9 witness: a call was answered ready, the reply was added to the
\* history, the user said something without a keyword, and the next call was
\* answered not ready.
C9_Witness ==
    /\ ~IsNull(lastCall)
    /\ Len(Val(lastCall).hist) = 3
    /\ Val(lastCall).hist[1].role = "user"
    /\ Val(lastCall).hist[1].content = SayReady
    /\ Val(lastCall).hist[2].role = "assistant"
    /\ Val(lastCall).hist[2].content = ReadyText
    /\ Val(lastCall).hist[3].role = "user"
    /\ Val(lastCall).hist[3].content = SayHi
    /\ ~Val(lastCall).resp.readyForTask
    /\ Val(lastCall).resp.message.timestamp = Some(2)

====
